---------------------------- MODULE Spec2Model ----------------------------
(***************************************************************************)
(* A model of circuitmatter's TLV codec (src/circuitmatter/tlv.py): the    *)
(* record class TLVStructure with its lazy scan, the Member descriptors    *)
(* with their get / set / encode paths, and the container walk.            *)
(*                                                                         *)
(* Conventions.  A buffer is a sequence of octets 0..255; Python's         *)
(* 0-based offsets are kept and At(buffer, i) reads buffer[i].  A tag is a *)
(* sequence: <<>> is None, <<n>> the int n, <<v, p, n>> a tuple.  A value  *)
(* is a tagged tuple: <<"none">>, <<"int", n>>, <<"bool", b>>,             *)
(* <<"bytes", s>>, <<"str", s>> (s a sequence of code points),             *)
(* <<"struct", r>> and <<"array", rs>>.  An operation that can raise       *)
(* returns a record whose err field is "" or the exception's name.         *)
(***************************************************************************)
EXTENDS Integers, Sequences, FiniteSets, TLC

OK == ""

None == <<"none">>

NoBuffer == <<-1>>

NoTag == <<>>

EmptyMap == [t \in {} |-> 0]

Put(map, k, v) == [x \in (DOMAIN map) \cup {k} |-> IF x = k THEN v ELSE map[x]]

Min(a, b) == IF a < b THEN a ELSE b

At(buffer, i) == buffer[i + 1]

\* Python's buffer[a:b] for 0 <= a, 0 <= b: both ends are clipped to the length.
Slice(buffer, a, b) == SubSeq(buffer, Min(a, Len(buffer)) + 1, Min(b, Len(buffer)))

RECURSIVE Pow2(_)
Pow2(n) == IF n = 0 THEN 1 ELSE 2 * Pow2(n - 1)

\* int(math.log(n, 2)) for n >= 1; the same value as int(math.log2(n)).
RECURSIVE Log2(_)
Log2(n) == IF n < 2 THEN 0 ELSE 1 + Log2(n \div 2)

\* int(math.log(n, 256)) for n >= 1.
RECURSIVE Log256(_)
Log256(n) == IF n < 256 THEN 0 ELSE 1 + Log256(n \div 256)

---------------------------------------------------------------------------
(* struct: little-endian packing and unpacking.                            *)

\* The n octets of v, least significant first (two's complement when v < 0).
RECURSIVE PackLE(_, _)
PackLE(v, n) == IF n = 0 THEN <<>> ELSE <<v % 256>> \o PackLE(v \div 256, n - 1)

\* The unsigned value of the n octets at offset.
RECURSIVE UnpackLE(_, _, _)
UnpackLE(buffer, offset, n) ==
    IF n = 0 THEN 0 ELSE At(buffer, offset) + 256 * UnpackLE(buffer, offset + 1, n - 1)

\* The two's complement value of the n octets at offset.
RECURSIVE UnpackSignedLE(_, _, _)
UnpackSignedLE(buffer, offset, n) ==
    IF n = 1
    THEN (IF At(buffer, offset) >= 128 THEN At(buffer, offset) - 256 ELSE At(buffer, offset))
    ELSE At(buffer, offset) + 256 * UnpackSignedLE(buffer, offset + 1, n - 1)

\* struct.unpack_from(format, buffer, offset)[0] for a format of n octets.
unpack_from(buffer, offset, n, signed) ==
    IF offset + n > Len(buffer)
    THEN [err |-> "struct.error", v |-> 0]
    ELSE [err |-> OK,
          v |-> IF signed THEN UnpackSignedLE(buffer, offset, n)
                ELSE UnpackLE(buffer, offset, n)]

\* Whether struct accepts v for an integer format of n octets.  The 4 and 8
\* octet ranges are wider than the integers used here, except for the sign.
PackFits(v, n, signed) ==
    IF n <= 2
    THEN (IF signed THEN -Pow2(8 * n - 1) <= v /\ v < Pow2(8 * n - 1)
          ELSE 0 <= v /\ v < Pow2(8 * n))
    ELSE signed \/ v >= 0

\* struct.pack_into(format, buffer, offset, v) for an integer format of n octets.
pack_into(buffer, offset, n, signed, v) ==
    IF ~PackFits(v, n, signed) \/ offset + n > Len(buffer)
    THEN [err |-> "struct.error", buffer |-> buffer]
    ELSE [err |-> OK,
          buffer |-> SubSeq(buffer, 1, offset) \o PackLE(v, n)
                     \o SubSeq(buffer, offset + n + 1, Len(buffer))]

\* buffer[offset] = octet on a bytearray.
SetItem(buffer, offset, octet) ==
    IF offset >= Len(buffer)
    THEN [err |-> "IndexError", buffer |-> buffer]
    ELSE [err |-> OK, buffer |-> [buffer EXCEPT ![offset + 1] = octet]]

\* buffer[offset : offset + len(octets)] = octets on a bytearray: the slice is
\* clipped to the bytearray, which grows when the octets do not fit in it.
SetSlice(buffer, offset, octets) ==
    SubSeq(buffer, 1, Min(offset, Len(buffer))) \o octets
    \o SubSeq(buffer, Min(offset + Len(octets), Len(buffer)) + 1, Len(buffer))

---------------------------------------------------------------------------
(* UTF-8, for code points below 0x800.                                     *)

RECURSIVE utf8_encode(_)
utf8_encode(s) ==
    IF s = <<>> THEN <<>>
    ELSE (IF Head(s) < 128 THEN <<Head(s)>>
          ELSE <<192 + (Head(s) \div 64), 128 + (Head(s) % 64)>>) \o utf8_encode(Tail(s))

\* bytes.decode("utf-8") for sequences of one and two octet forms; longer
\* forms are not produced by the strings used here and are rejected.
RECURSIVE utf8_decode(_)
utf8_decode(b) ==
    IF b = <<>> THEN [err |-> OK, s |-> <<>>]
    ELSE IF Head(b) < 128
    THEN LET r == utf8_decode(Tail(b))
         IN [err |-> r.err, s |-> <<Head(b)>> \o r.s]
    ELSE IF Head(b) >= 194 /\ Head(b) < 224 /\ Len(b) >= 2
            /\ b[2] >= 128 /\ b[2] < 192
    THEN LET r == utf8_decode(Tail(Tail(b)))
         IN [err |-> r.err, s |-> <<(Head(b) - 192) * 64 + (b[2] - 128)>> \o r.s]
    ELSE [err |-> "UnicodeDecodeError", s |-> <<>>]

---------------------------------------------------------------------------
(* Element types and tag widths.                                           *)

TAG_LENGTH == <<0, 1, 2, 4, 2, 4, 6, 8>>

SIGNED_INT == 0
UNSIGNED_INT == 4
BOOL == 8
FLOAT == 10
UTF8_STRING == 12
OCTET_STRING == 16
NULL == 20
STRUCTURE == 21
ARRAY == 22
LIST == 23
END_OF_CONTAINER == 24

ArrayMaxValueLength == 1280

\* find_container_end: the offset just after the first end-of-container octet
\* that is met with the nesting counter at zero, scanning octet by octet.
RECURSIVE FindLoop(_, _, _)
FindLoop(buffer, end, nesting) ==
    IF end >= Len(buffer) THEN [err |-> "IndexError", end |-> end]
    ELSE LET octet == At(buffer, end)
         IN IF octet # END_OF_CONTAINER \/ nesting > 0
            THEN FindLoop(buffer, end + 1,
                          IF octet = END_OF_CONTAINER THEN nesting - 1
                          ELSE IF (octet % 32) \in {STRUCTURE, ARRAY, LIST}
                               THEN nesting + 1 ELSE nesting)
            ELSE [err |-> OK, end |-> end + 1]

find_container_end(buffer, start) == FindLoop(buffer, start, 0)

---------------------------------------------------------------------------
(* Member descriptors.  Every descriptor is a record of the same shape;    *)
(* minimum and maximum are <<>> for None and <<m>> for the int m.          *)

\* Member.__init__: the width of the tag header.
TagLength(tag) ==
    IF Len(tag) = 1 THEN 1
    ELSE IF Len(tag) = 3 THEN (IF tag[3] < 65536 THEN 6 ELSE 8)
    ELSE 0

\* NumberMember.__init__ through IntMember.__init__.
IntMember(tag, signed, octets, optional, nullable, minimum, maximum) ==
    [cls |-> "IntMember", tag |-> tag, optional |-> optional, nullable |-> nullable,
     tag_length |-> TagLength(tag), max_value_length |-> octets, signed |-> signed,
     element_type |-> (IF signed THEN SIGNED_INT ELSE UNSIGNED_INT) + Log2(octets),
     minimum |-> minimum, maximum |-> maximum, length_length |-> 0,
     substruct_class |-> ""]

BoolMember(tag, optional, nullable) ==
    [cls |-> "BoolMember", tag |-> tag, optional |-> optional, nullable |-> nullable,
     tag_length |-> TagLength(tag), max_value_length |-> 0, signed |-> FALSE,
     element_type |-> BOOL, minimum |-> <<>>, maximum |-> <<>>, length_length |-> 0,
     substruct_class |-> ""]

\* StringMember.__init__ for the class with the given base element type.
StringMember(cls, base, tag, max_length, optional, nullable) ==
    [cls |-> cls, tag |-> tag, optional |-> optional, nullable |-> nullable,
     tag_length |-> TagLength(tag), max_value_length |-> max_length, signed |-> FALSE,
     element_type |-> base + Log256(max_length),
     minimum |-> <<>>, maximum |-> <<>>, length_length |-> Pow2(Log256(max_length)),
     substruct_class |-> ""]

OctetStringMember(tag, max_length, optional, nullable) ==
    StringMember("OctetStringMember", OCTET_STRING, tag, max_length, optional, nullable)

UTF8StringMember(tag, max_length, optional, nullable) ==
    StringMember("UTF8StringMember", UTF8_STRING, tag, max_length, optional, nullable)

AnythingMember(tag) ==
    [cls |-> "AnythingMember", tag |-> tag, optional |-> FALSE, nullable |-> TRUE,
     tag_length |-> TagLength(tag), max_value_length |-> 0, signed |-> FALSE,
     element_type |-> NULL, minimum |-> <<>>, maximum |-> <<>>, length_length |-> 0,
     substruct_class |-> ""]

ArrayMember(tag, substruct_class, optional, nullable) ==
    [cls |-> "ArrayMember", tag |-> tag, optional |-> optional, nullable |-> nullable,
     tag_length |-> TagLength(tag), max_value_length |-> ArrayMaxValueLength,
     signed |-> FALSE, element_type |-> ARRAY, minimum |-> <<>>, maximum |-> <<>>,
     length_length |-> 0, substruct_class |-> substruct_class]

\* Member.max_length.
MemberMaxLength(member) == 1 + member.tag_length + member.max_value_length

RECURSIVE SumMaxLength(_, _)
SumMaxLength(members, i) ==
    IF i > Len(members) THEN 0
    ELSE MemberMaxLength(members[i]) + SumMaxLength(members, i + 1)

RECURSIVE Members(_)

\* TLVStructure.max_length.
max_length(class) == SumMaxLength(Members(class), 1)

StructMember(tag, substruct_class, optional, nullable) ==
    [cls |-> "StructMember", tag |-> tag, optional |-> optional, nullable |-> nullable,
     tag_length |-> TagLength(tag), max_value_length |-> max_length(substruct_class) + 1,
     signed |-> FALSE, element_type |-> STRUCTURE, minimum |-> <<>>, maximum |-> <<>>,
     length_length |-> 0, substruct_class |-> substruct_class]

\* TLVStructure._members for the record classes of the model, in declaration
\* order:
\*   class Inner:   a = IntMember(0, signed=False, octets=1)
\*   class Outer:   s = StructMember(9, Inner)
\*                  flag = BoolMember(3, optional=True)
\*   class Scalars: flag = BoolMember(3, optional=True)
\*                  name = UTF8StringMember(5, 2, nullable=True)
\*                  u8 = IntMember(1, signed=False, octets=1)
\*   class Numbers: i16 = IntMember(2, signed=True, octets=2, optional=True)
\*                  i8 = IntMember(4, octets=1, nullable=True, minimum=-5, maximum=5)
\*                  nul = AnythingMember(7)
\*   class Blob:    ok = BoolMember(2, optional=True)
\*                  data = OctetStringMember(1, 1)
\*   class Maybe:   n = IntMember(0, octets=1, nullable=True)
\*                  m = BoolMember(1, optional=True, nullable=True)
\*   class Table:   rows = ArrayMember(6, Inner)
\*                  count = IntMember((65521, 0, 5), signed=False, octets=2, optional=True)
Members(class) ==
    CASE class = "Inner" ->
           <<IntMember(<<0>>, FALSE, 1, FALSE, FALSE, <<>>, <<>>)>>
      [] class = "Outer" ->
           <<StructMember(<<9>>, "Inner", FALSE, FALSE),
             BoolMember(<<3>>, TRUE, FALSE)>>
      [] class = "Scalars" ->
           <<BoolMember(<<3>>, TRUE, FALSE),
             UTF8StringMember(<<5>>, 2, FALSE, TRUE),
             IntMember(<<1>>, FALSE, 1, FALSE, FALSE, <<>>, <<>>)>>
      [] class = "Numbers" ->
           <<IntMember(<<2>>, TRUE, 2, TRUE, FALSE, <<>>, <<>>),
             IntMember(<<4>>, TRUE, 1, FALSE, TRUE, <<-5>>, <<5>>),
             AnythingMember(<<7>>)>>
      [] class = "Blob" ->
           <<BoolMember(<<2>>, TRUE, FALSE),
             OctetStringMember(<<1>>, 1, FALSE, FALSE)>>
      [] class = "Maybe" ->
           <<IntMember(<<0>>, TRUE, 1, FALSE, TRUE, <<>>, <<>>),
             BoolMember(<<1>>, TRUE, TRUE)>>
      [] class = "Table" ->
           <<ArrayMember(<<6>>, "Inner", FALSE, FALSE),
             IntMember(<<65521, 0, 5>>, FALSE, 2, TRUE, FALSE, <<>>, <<>>)>>

Classes == {"Inner", "Outer", "Scalars", "Numbers", "Blob", "Table", "Maybe"}

---------------------------------------------------------------------------
(* TLVStructure: the record and its lazy scan.                             *)

\* TLVStructure.__init__.
TLVStructure(class, buffer) ==
    [class |-> class, buffer |-> buffer, tag_value_offset |-> EmptyMap,
     null_tags |-> {}, tag_value_length |-> EmptyMap, cached_values |-> EmptyMap,
     offset |-> 0]

\* scan_until, lines 110-137: the tag of the element whose control octet is
\* at offset.
ThisTag(buffer, offset, tag_control) ==
    IF tag_control = 0 THEN [err |-> OK, tag |-> NoTag]
    ELSE IF tag_control = 1
    THEN (IF offset + 1 >= Len(buffer) THEN [err |-> "IndexError", tag |-> NoTag]
          ELSE [err |-> OK, tag |-> <<At(buffer, offset + 1)>>])
    ELSE IF tag_control >= 6 /\ offset + 5 > Len(buffer)
    THEN [err |-> "struct.error", tag |-> NoTag]
    ELSE IF tag_control \in {2, 3}
    THEN [err |-> "NotImplementedError", tag |-> NoTag]
    ELSE LET n == IF tag_control = 7 THEN 4 ELSE 2
         IN IF offset + 5 + n > Len(buffer)
            THEN [err |-> "struct.error", tag |-> NoTag]
            ELSE LET tag_number == UnpackLE(buffer, offset + 5, n)
                     vendor_id == IF tag_control >= 6
                                  THEN UnpackLE(buffer, offset + 1, 2) ELSE 0
                     profile_number == IF tag_control >= 6
                                       THEN UnpackLE(buffer, offset + 3, 2) ELSE 0
                 IN [err |-> OK,
                     tag |-> IF vendor_id # 0
                             THEN <<vendor_id, profile_number, tag_number>>
                             ELSE <<tag_number>>]

\* scan_until, lines 139-167: where the value of the element lies.
ValueExtent(buffer, offset, length_offset, element_type) ==
    LET element_category == element_type \div 4
    IN IF element_category \in {0, 1}
       THEN [err |-> OK, value_offset |-> length_offset,
             value_length |-> Pow2(element_type % 4)]
       ELSE IF element_category = 2
       THEN (IF element_type % 4 <= 1
             THEN [err |-> OK, value_offset |-> offset, value_length |-> 1]
             ELSE [err |-> OK, value_offset |-> length_offset,
                   value_length |-> 4 * Pow2(element_type % 2)])
       ELSE IF element_category \in {3, 4}
       THEN LET length_length == Pow2(element_type % 4)
                r == unpack_from(buffer, length_offset, length_length, FALSE)
            IN [err |-> r.err, value_offset |-> length_offset + length_length,
                value_length |-> r.v]
       ELSE IF element_type = NULL
       THEN [err |-> OK, value_offset |-> offset, value_length |-> 1]
       ELSE LET r == find_container_end(buffer, length_offset)
            IN [err |-> r.err, value_offset |-> length_offset,
                value_length |-> r.end - length_offset - 1]

RECURSIVE ScanLoop(_, _)

\* A scan that leaves the cursor at the value of the element it was asked for.
ScanIndexRewind(obj, tag, element_type, length_offset, this_tag, value_offset, value_length) ==
    LET after == (IF obj.offset = value_offset THEN length_offset
                  ELSE value_offset + value_length)
                 + (IF element_type \in {STRUCTURE, ARRAY, LIST} THEN 1 ELSE 0)
        next == [obj EXCEPT
                   !.null_tags = IF element_type = NULL THEN @ \cup {this_tag} ELSE @,
                   !.tag_value_offset = Put(@, this_tag, value_offset),
                   !.tag_value_length = Put(@, this_tag, value_length),
                   !.offset = after]
    IN IF tag = this_tag
       THEN [err |-> OK, obj |-> [next EXCEPT !.offset = value_offset]]
       ELSE ScanLoop(next, tag)

\* scan_until, lines 169-188: index the element, move the offset past it and
\* stop when it carries the tag looked for.
ScanIndex(obj, tag, element_type, length_offset, this_tag, value_offset, value_length) ==
    LET after == (IF obj.offset = value_offset THEN length_offset
                  ELSE value_offset + value_length)
                 + (IF element_type \in {STRUCTURE, ARRAY, LIST} THEN 1 ELSE 0)
        next == [obj EXCEPT
                   !.null_tags = IF element_type = NULL THEN @ \cup {this_tag} ELSE @,
                   !.tag_value_offset = Put(@, this_tag, value_offset),
                   !.tag_value_length = Put(@, this_tag, value_length),
                   !.offset = after]
    IN IF tag = this_tag THEN [err |-> OK, obj |-> next] ELSE ScanLoop(next, tag)

\* scan_until, lines 139-167, x being the extent found: a read that raises
\* leaves the record as it was before this element.
ScanExtent(obj, tag, element_type, length_offset, this_tag, x) ==
    IF x.err # OK THEN [err |-> x.err, obj |-> obj]
    ELSE ScanIndex(obj, tag, element_type, length_offset, this_tag,
                   x.value_offset, x.value_length)

\* scan_until, lines 110-139, t being the tag found.
ScanTag(obj, tag, tag_control, element_type, t) ==
    IF t.err # OK THEN [err |-> t.err, obj |-> obj]
    ELSE ScanExtent(obj, tag, element_type,
                    obj.offset + 1 + TAG_LENGTH[tag_control + 1], t.tag,
                    ValueExtent(obj.buffer, obj.offset,
                                obj.offset + 1 + TAG_LENGTH[tag_control + 1],
                                element_type))

\* scan_until, lines 105-108: the loop, from the record's offset.
ScanLoop(obj, tag) ==
    IF obj.offset >= Len(obj.buffer) THEN [err |-> OK, obj |-> obj]
    ELSE ScanTag(obj, tag, At(obj.buffer, obj.offset) \div 32,
                 At(obj.buffer, obj.offset) % 32,
                 ThisTag(obj.buffer, obj.offset, At(obj.buffer, obj.offset) \div 32))

\* TLVStructure.scan_until.
scan_until(obj, tag) ==
    IF obj.buffer = NoBuffer THEN [err |-> OK, obj |-> obj] ELSE ScanLoop(obj, tag)

---------------------------------------------------------------------------
(* The read path.                                                          *)

\* NumberMember.decode for an integer member: the width comes from the
\* length found in the buffer, the signedness from the member.
NumberDecode(member, buffer, length, offset) ==
    IF length < 1 THEN [err |-> "ValueError", value |-> None]
    ELSE IF Log2(length) > 3 THEN [err |-> "IndexError", value |-> None]
    ELSE LET r == unpack_from(buffer, offset, Pow2(Log2(length)), member.signed)
         IN [err |-> r.err, value |-> IF r.err = OK THEN <<"int", r.v>> ELSE None]

BoolDecode(buffer, offset) ==
    IF offset >= Len(buffer) THEN [err |-> "IndexError", value |-> None]
    ELSE [err |-> OK, value |-> <<"bool", At(buffer, offset) % 2 = 1>>]

UTF8Decode(buffer, length, offset) ==
    LET r == utf8_decode(Slice(buffer, offset, offset + length))
    IN [err |-> r.err, value |-> IF r.err = OK THEN <<"str", r.s>> ELSE None]

\* The decode method of the member's class.
decode(member, buffer, length, offset) ==
    CASE member.cls = "IntMember" -> NumberDecode(member, buffer, length, offset)
      [] member.cls = "BoolMember" -> BoolDecode(buffer, offset)
      [] member.cls = "OctetStringMember" ->
           [err |-> OK, value |-> <<"bytes", Slice(buffer, offset, offset + length)>>]
      [] member.cls = "UTF8StringMember" -> UTF8Decode(buffer, length, offset)
      [] member.cls = "StructMember" ->
           [err |-> OK,
            value |-> <<"struct", TLVStructure(member.substruct_class,
                                               Slice(buffer, offset, offset + length))>>]
      [] member.cls = "ArrayMember" -> [err |-> OK, value |-> <<"array", <<>>>>]
      [] member.cls = "AnythingMember" -> [err |-> OK, value |-> None]

\* Member._default, as Member.__init__ leaves it.
Default(member) == None

\* Member.__get__, lines 251-257, d being what decode returned.
GetDecoded(member, obj, d) ==
    IF d.err # OK THEN [err |-> d.err, obj |-> obj, value |-> None]
    ELSE [err |-> OK,
          obj |-> [obj EXCEPT !.cached_values = Put(@, member.tag, d.value)],
          value |-> d.value]

\* Member.__get__, lines 248-257: after the scan.
GetIndexed(member, obj) ==
    IF member.tag \notin DOMAIN obj.tag_value_offset \/ member.tag \in obj.null_tags
    THEN [err |-> OK, obj |-> obj, value |-> Default(member)]
    ELSE GetDecoded(member, obj,
                    decode(member, obj.buffer, obj.tag_value_length[member.tag],
                           obj.tag_value_offset[member.tag]))

\* Member.__get__, lines 246-248, s being what scan_until did.
GetScanned(member, s) ==
    IF s.err # OK THEN [err |-> s.err, obj |-> s.obj, value |-> None]
    ELSE GetIndexed(member, s.obj)

\* Member.__get__.
Get(member, obj) ==
    IF member.tag \in DOMAIN obj.cached_values
    THEN [err |-> OK, obj |-> obj, value |-> obj.cached_values[member.tag]]
    ELSE IF member.tag \notin DOMAIN obj.tag_value_offset
    THEN GetScanned(member, scan_until(obj, member.tag))
    ELSE GetIndexed(member, obj)

---------------------------------------------------------------------------
(* The write path.                                                         *)

\* Member.__set__.
MemberSet(member, obj, value) ==
    IF value = None /\ ~member.nullable THEN [err |-> "ValueError", obj |-> obj]
    ELSE [err |-> OK, obj |-> [obj EXCEPT !.cached_values = Put(@, member.tag, value)]]

\* An integer write whose upper bound is one too large.
NumberSetOffByOne(member, obj, value) ==
    LET octets == member.max_value_length
        bits == 8 * octets
        max_size == IF member.signed THEN Pow2(bits - 1) ELSE Pow2(bits)
        min_size == IF member.signed THEN -max_size ELSE 0
    IN IF value # None /\ ~(min_size <= value[2] /\ value[2] <= max_size)
       THEN [err |-> "ValueError", obj |-> obj]
       ELSE IF member.minimum # <<>> /\ value = None
       THEN [err |-> "TypeError", obj |-> obj]
       ELSE IF member.minimum # <<>> /\ value[2] < member.minimum[1]
       THEN [err |-> "ValueError", obj |-> obj]
       ELSE IF member.maximum # <<>> /\ value = None
       THEN [err |-> "TypeError", obj |-> obj]
       ELSE IF member.maximum # <<>> /\ value[2] > member.maximum[1]
       THEN [err |-> "ValueError", obj |-> obj]
       ELSE MemberSet(member, obj, value)

\* NumberMember.__set__ for an integer member.  The members of the model have
\* 1 or 2 octets, whose bounds are computed as the code computes them.
NumberSet(member, obj, value) ==
    LET octets == member.max_value_length
        bits == 8 * octets
        max_size == (IF member.signed THEN Pow2(bits - 1) ELSE Pow2(bits)) - 1
        min_size == IF member.signed THEN -max_size - 1 ELSE 0
    IN IF value # None /\ ~(min_size <= value[2] /\ value[2] <= max_size)
       THEN [err |-> "ValueError", obj |-> obj]
       ELSE IF member.minimum # <<>> /\ value = None
       THEN [err |-> "TypeError", obj |-> obj]
       ELSE IF member.minimum # <<>> /\ value[2] < member.minimum[1]
       THEN [err |-> "ValueError", obj |-> obj]
       ELSE IF member.maximum # <<>> /\ value = None
       THEN [err |-> "TypeError", obj |-> obj]
       ELSE IF member.maximum # <<>> /\ value[2] > member.maximum[1]
       THEN [err |-> "ValueError", obj |-> obj]
       ELSE MemberSet(member, obj, value)

\* The __set__ method of the member's class.
Set(member, obj, value) ==
    IF member.cls = "IntMember" THEN NumberSet(member, obj, value)
    ELSE MemberSet(member, obj, value)

---------------------------------------------------------------------------
(* The encode path.  buffer is the bytearray being filled; a sub-record    *)
(* that is encoded is read through its own get path, so the value comes    *)
(* back with the state its record was left in.                             *)

\* The encode_element_type method of the member's class.
encode_element_type(member, value) ==
    IF member.cls = "BoolMember" THEN BOOL + (IF value[2] THEN 1 ELSE 0)
    ELSE member.element_type

\* Member.encode_into, lines 287-293.
TagControl(tag) ==
    IF tag = NoTag THEN 0
    ELSE IF Len(tag) = 3 THEN (IF tag[3] >= 65536 THEN 7 ELSE 6)
    ELSE 1

\* Python's truth value of a tag: None and the int 0 are false.
Truthy(tag) == tag # NoTag /\ tag # <<0>>

\* The outcome of a write, with the offset after it.
Written(w, offset) == [err |-> w.err, buffer |-> w.buffer, offset |-> offset]

\* One more struct.pack_into of an unsigned integer after the write w.
ThenPack(w, offset, n, v) ==
    IF w.err # OK THEN w ELSE pack_into(w.buffer, offset, n, FALSE, v)

\* Member.encode_into, lines 297-310: the tag header.
EncodeTag(tag, buffer, offset) ==
    IF ~Truthy(tag) THEN [err |-> OK, buffer |-> buffer, offset |-> offset]
    ELSE IF Len(tag) = 1
    THEN Written(SetItem(buffer, offset, tag[1]), offset + 1)
    ELSE Written(ThenPack(ThenPack(pack_into(buffer, offset, 2, FALSE, tag[1]),
                                   offset + 2, 2, tag[2]),
                          offset + 4, IF tag[3] >= 65536 THEN 4 ELSE 2, tag[3]),
                 offset + 4 + (IF tag[3] >= 65536 THEN 4 ELSE 2))

\* StringMember.encode_value_into, lines 562-564, l being the write of the
\* length.
StringPayload(member, octets, l, offset) ==
    IF l.err # OK THEN [err |-> l.err, buffer |-> l.buffer, offset |-> offset]
    ELSE [err |-> OK,
          buffer |-> SetSlice(l.buffer, offset + member.length_length, octets),
          offset |-> offset + member.length_length + Len(octets)]

\* StringMember.encode_value_into on the octets of the value.
StringEncodeValueInto(member, octets, buffer, offset) ==
    StringPayload(member, octets,
                  pack_into(buffer, offset, member.length_length, FALSE, Len(octets)),
                  offset)

RECURSIVE EncodeMembers(_, _, _, _)
RECURSIVE EncodeEntries(_, _, _, _)

\* TLVStructure.encode_into.
encode_into(obj, buffer, offset) == EncodeMembers(obj, 1, buffer, offset)

\* The value that was encoded, with the outcome w of its writes.
WithValue(value, w) ==
    [err |-> w.err, value |-> value, buffer |-> w.buffer, offset |-> w.offset]

\* StructMember.encode_value_into and ArrayMember.encode_value_into, after the
\* payload r: the end-of-container octet.
CloseContainer(r, value) ==
    IF r.err # OK THEN WithValue(value, r)
    ELSE WithValue(value, Written(SetItem(r.buffer, r.offset, END_OF_CONTAINER),
                                  r.offset + 1))

\* StructMember.encode_value_into, r being what encoding the sub-record did.
CloseStructure(r) == CloseContainer(r, <<"struct", r.obj>>)

\* ArrayMember.encode_value_into, r being what encoding the entries did.
CloseArray(r) == CloseContainer(r, <<"array", r.entries>>)

\* The encode_value_into method of the member's class.
encode_value_into(member, value, buffer, offset) ==
    CASE member.cls = "IntMember" ->
           WithValue(value,
                     Written(pack_into(buffer, offset, member.max_value_length,
                                       member.signed, value[2]),
                             offset + member.max_value_length))
      [] member.cls \in {"BoolMember", "AnythingMember"} ->
           [err |-> OK, value |-> value, buffer |-> buffer, offset |-> offset]
      [] member.cls = "OctetStringMember" ->
           WithValue(value, StringEncodeValueInto(member, value[2], buffer, offset))
      [] member.cls = "UTF8StringMember" ->
           WithValue(value, StringEncodeValueInto(member, utf8_encode(value[2]),
                                                  buffer, offset))
      [] member.cls = "StructMember" ->
           CloseStructure(encode_into(value[2], buffer, offset))
      [] member.cls = "ArrayMember" ->
           CloseArray(EncodeEntries(value[2], 1, buffer, offset))

\* ArrayMember.encode_value_into, line 663, r being what encoding entry i did.
EntryEncoded(entries, i, r) ==
    IF r.err # OK
    THEN [err |-> r.err, entries |-> [entries EXCEPT ![i] = r.obj],
          buffer |-> r.buffer, offset |-> r.offset]
    ELSE EncodeEntries([entries EXCEPT ![i] = r.obj], i + 1, r.buffer, r.offset)

\* ArrayMember.encode_value_into, lines 662-663: the loop over the entries.
EncodeEntries(entries, i, buffer, offset) ==
    IF i > Len(entries)
    THEN [err |-> OK, entries |-> entries, buffer |-> buffer, offset |-> offset]
    ELSE EntryEncoded(entries, i, encode_into(entries[i], buffer, offset))

\* An encode that drops a written value from the cache once it is emitted.
EmittedFlush(member, obj, v) ==
    [err |-> v.err,
     obj |-> [obj EXCEPT !.cached_values =
                 [t \in (DOMAIN @) \ {member.tag} |-> @[t]]],
     buffer |-> v.buffer, offset |-> v.offset]

\* Member.encode_into, lines 311-318, v being what encode_value_into did.  The
\* value is the object held in the cache: what encoding did to a sub-record
\* is seen through the cache.
Emitted(member, obj, v) ==
    [err |-> v.err,
     obj |-> [obj EXCEPT !.cached_values = Put(@, member.tag, v.value)],
     buffer |-> v.buffer, offset |-> v.offset]

\* Member.encode_into, lines 311-318, t being the write of the tag header.
EmitValue(member, obj, value, t) ==
    IF t.err # OK \/ value = None
    THEN [err |-> t.err, obj |-> obj, buffer |-> t.buffer, offset |-> t.offset]
    ELSE Emitted(member, obj, encode_value_into(member, value, t.buffer, t.offset))

\* Member.encode_into, lines 296-310, c being the write of the control octet.
EmitTag(member, obj, value, c, offset) ==
    IF c.err # OK
    THEN [err |-> c.err, obj |-> obj, buffer |-> c.buffer, offset |-> offset]
    ELSE EmitValue(member, obj, value, EncodeTag(member.tag, c.buffer, offset + 1))

\* Member.encode_into, lines 287-318: the element of a value that is emitted.
EmitElement(member, obj, value, buffer, offset) ==
    EmitTag(member, obj, value,
            SetItem(buffer, offset,
                    TagControl(member.tag) * 32
                    + (IF value # None THEN encode_element_type(member, value)
                       ELSE NULL)),
            offset)

\* An encode that remembers in the cache that a skipped member read None.
EncodeValueMemo(member, g, buffer, offset) ==
    IF g.err # OK
    THEN [err |-> g.err, obj |-> g.obj, buffer |-> buffer, offset |-> offset]
    ELSE IF g.value = None /\ member.optional
    THEN [err |-> OK,
          obj |-> [g.obj EXCEPT !.cached_values = Put(@, member.tag, None)],
          buffer |-> buffer, offset |-> offset]
    ELSE IF g.value = None /\ ~member.nullable
    THEN [err |-> "ValueError", obj |-> g.obj, buffer |-> buffer, offset |-> offset]
    ELSE EmitElement(member, g.obj, g.value, buffer, offset)

\* Member.encode_into, lines 278-285, g being what __get__ returned.
EncodeValue(member, g, buffer, offset) ==
    IF g.err # OK
    THEN [err |-> g.err, obj |-> g.obj, buffer |-> buffer, offset |-> offset]
    ELSE IF g.value = None /\ member.optional
    THEN [err |-> OK, obj |-> g.obj, buffer |-> buffer, offset |-> offset]
    ELSE IF g.value = None /\ ~member.nullable
    THEN [err |-> "ValueError", obj |-> g.obj, buffer |-> buffer, offset |-> offset]
    ELSE EmitElement(member, g.obj, g.value, buffer, offset)

\* Member.encode_into.
MemberEncodeInto(member, obj, buffer, offset) ==
    EncodeValue(member, Get(member, obj), buffer, offset)

\* TLVStructure.encode_into, line 93, r being what member i did.
MemberEncoded(i, r) ==
    IF r.err # OK THEN r ELSE EncodeMembers(r.obj, i + 1, r.buffer, r.offset)

\* TLVStructure.encode_into, lines 92-94: the loop over the members.
EncodeMembers(obj, i, buffer, offset) ==
    IF i > Len(Members(obj.class))
    THEN [err |-> OK, obj |-> obj, buffer |-> buffer, offset |-> offset]
    ELSE MemberEncoded(i, MemberEncodeInto(Members(obj.class)[i], obj, buffer, offset))

\* TLVStructure.encode, line 89, r being what encode_into did.
Encoded(r) ==
    [err |-> r.err, obj |-> r.obj,
     out |-> IF r.err = OK THEN Slice(r.buffer, 0, r.offset) ELSE <<>>]

\* TLVStructure.encode.
encode(obj) == Encoded(encode_into(obj, [i \in 1..max_length(obj.class) |-> 0], 0))

---------------------------------------------------------------------------
(* The inputs: the values a caller writes and the buffers a record is      *)
(* created over.                                                           *)

MaxStrLen == 2

MaxEntries == 2

\* The sequences over alphabet of length at most n.
RECURSIVE SeqsUpTo(_, _)
SeqsUpTo(alphabet, n) ==
    IF n = 0 THEN {<<>>}
    ELSE LET shorter == SeqsUpTo(alphabet, n - 1)
         IN shorter \cup {Append(s, x) : s \in shorter, x \in alphabet}

\* An Inner record built empty, then a written unless it is <<>>.
InnerBuilt(a) ==
    IF a = <<>> THEN TLVStructure("Inner", NoBuffer)
    ELSE [TLVStructure("Inner", NoBuffer) EXCEPT !.cached_values = Put(@, <<0>>, <<"int", a[1]>>)]

\* The Inner records a caller assigns to a structure member or puts in an
\* array: built with a = 1, with a = 24, with a left unset, and one created
\* over the octets 24 00 07.
InnerRecords ==
    {InnerBuilt(<<1>>), InnerBuilt(<<24>>), InnerBuilt(<<>>),
     TLVStructure("Inner", <<36, 0, 7>>)}

\* The integers tried on an integer member: both ends of its representable
\* range and of its declared range, one step inside and outside, and -1, 1, 24.
IntInputs(member) ==
    LET bits == 8 * member.max_value_length
        lo == IF member.signed THEN -Pow2(bits - 1) ELSE 0
        hi == (IF member.signed THEN Pow2(bits - 1) ELSE Pow2(bits)) - 1
    IN {lo - 1, lo, hi, hi + 1, -1, 1, 24}
       \cup (IF member.minimum = <<>> THEN {}
             ELSE {member.minimum[1] - 1, member.minimum[1]})
       \cup (IF member.maximum = <<>> THEN {}
             ELSE {member.maximum[1], member.maximum[1] + 1})

\* The values a caller tries to write to a member, None included.
Inputs(member) ==
    {None} \cup
    CASE member.cls = "IntMember" -> {<<"int", n>> : n \in IntInputs(member)}
      [] member.cls = "BoolMember" -> {<<"bool", TRUE>>, <<"bool", FALSE>>}
      [] member.cls = "OctetStringMember" ->
           {<<"bytes", s>> : s \in SeqsUpTo({97, 24}, MaxStrLen)}
      [] member.cls = "UTF8StringMember" ->
           {<<"str", s>> : s \in SeqsUpTo({104, 233}, MaxStrLen)}
      [] member.cls = "StructMember" -> {<<"struct", r>> : r \in InnerRecords}
      [] member.cls = "ArrayMember" ->
           {<<"array", s>> : s \in SeqsUpTo(InnerRecords, MaxEntries)}
      [] member.cls = "AnythingMember" -> {}

\* The buffers records are created over, each with the class that reads it.
SampleBuffers ==
    {<<"Scalars", <<36, 1, 42, 41, 3, 44, 5, 2, 104, 105>>>>,
     <<"Scalars", <<52, 5, 36, 8, 7, 36, 1, 42>>>>,
     <<"Scalars", <<41, 3>>>>,
     <<"Scalars", <<>>>>,
     <<"Scalars", <<36, 1, 5, 36, 1, 7>>>>,
     <<"Outer", <<53, 9, 36, 0, 1, 24, 41, 3>>>>,
     <<"Outer", <<53, 9, 36, 0, 24, 24, 41, 3>>>>,
     <<"Outer", <<53, 9, 36, 0, 21, 24, 41, 3>>>>,
     <<"Outer", <<53, 9, 24, 41, 3>>>>,
     <<"Numbers", <<32, 2, 255, 52, 7, 32, 4, 3>>>>,
     <<"Blob", <<40, 2, 48, 1, 1, 97>>>>,
     <<"Table", <<197, 241, 255, 0, 0, 5, 0, 7, 0, 54, 6, 21, 36, 0, 1, 24, 24>>>>}

---------------------------------------------------------------------------
(* The state machine: one record, and the calls made on it.                *)

\* obj is the record; last is the call made last, with what it returned;
\* origin is, for a record created over an encoded image, what the members
\* of the encoded record read; dirty tells that a write was accepted since
\* the record was created; image is what the first encode since the last
\* write returned, and how many encodes (1, 2 for more) were made since.
\* it is the List being iterated and its iterator, with what the iterator
\* has yielded so far; the calls on a record leave it alone.
VARIABLES obj, last, origin, dirty, image, it

vars == <<obj, last, origin, dirty, image, it>>

NoOrigin == [built |-> FALSE, values |-> <<>>]

NoImage == [n |-> 0, err |-> OK, out |-> <<>>]

\* List.__init__.
List(substruct_class, buffer) == [substruct_class |-> substruct_class, buffer |-> buffer]

\* List.__call__: a List of the same class over the buffer.
ListCall(tlv_list, buffer) == List(tlv_list.substruct_class, buffer)

\* ListIterator.__init__.
ListIterator(tlv_list) == [list |-> tlv_list, offset |-> 0]

\* ListIterator.__next__: len() of a List without buffer raises TypeError.
ListIteratorNext(iterator) ==
    IF iterator.list.buffer = NoBuffer
    THEN [err |-> "TypeError", iterator |-> iterator, item |-> None]
    ELSE IF iterator.offset >= Len(iterator.list.buffer)
    THEN [err |-> "StopIteration", iterator |-> iterator, item |-> None]
    ELSE [err |-> OK,
          iterator |-> [iterator EXCEPT !.offset = Len(iterator.list.buffer)],
          item |-> <<"struct", TLVStructure(iterator.list.substruct_class,
                                            iterator.list.buffer)>>]

\* No iterator was made of the List yet.
NoIterator == [list |-> List("", NoBuffer), offset |-> -1]

\* No List is being iterated.
NoList == [list |-> List("", NoBuffer), iterator |-> NoIterator, yielded |-> <<>>,
           err |-> OK]

Call(op, member, arg, err, value, out) ==
    [op |-> op, member |-> member, arg |-> arg, err |-> err, value |-> value,
     out |-> out]

\* What a read returned, a sub-record being read member by member in turn.
RECURSIVE ReadAll(_)
ReadValue(g) ==
    IF g.err # OK THEN <<"raised", g.err>>
    ELSE IF g.value[1] = "struct" THEN <<"struct", ReadAll(g.value[2])>>
    ELSE IF g.value[1] = "array"
    THEN <<"array", [k \in 1..Len(g.value[2]) |-> ReadAll(g.value[2][k])]>>
    ELSE g.value

\* What reading every member of a record returns, in declaration order, each
\* read on the record as it was handed in.
ReadAll(record) ==
    [i \in 1..Len(Members(record.class)) |->
        ReadValue(Get(Members(record.class)[i], record))]

Init ==
    /\ obj \in {TLVStructure(class, NoBuffer) : class \in Classes}
               \cup {TLVStructure(b[1], b[2]) : b \in SampleBuffers}
    /\ last = Call("new", 0, None, OK, None, <<>>)
    /\ origin = NoOrigin
    /\ dirty = FALSE
    /\ image = NoImage
    /\ it = NoList

SetReturns(i, value, r) ==
    /\ obj' = r.obj
    /\ last' = Call("set", i, value, r.err, None, <<>>)
    /\ dirty' = (dirty \/ r.err = OK)
    /\ image' = NoImage
    /\ UNCHANGED <<origin, it>>

\* record.member = value.  Records decoded from an encoded image are read
\* only; writes to records over a buffer are made on the sample buffers.
DoSet(i, value) ==
    /\ origin = NoOrigin
    /\ SetReturns(i, value, Set(Members(obj.class)[i], obj, value))

GetReturns(i, r) ==
    /\ obj' = r.obj
    /\ last' = Call("get", i, None, r.err, r.value, <<>>)
    /\ UNCHANGED <<origin, dirty, image, it>>

\* record.member
DoGet(i) == GetReturns(i, Get(Members(obj.class)[i], obj))

EncodeReturns(r) ==
    /\ obj' = r.obj
    /\ last' = Call("encode", 0, None, r.err, None, r.out)
    /\ image' = IF image.n = 0 THEN [n |-> 1, err |-> r.err, out |-> r.out]
                ELSE [image EXCEPT !.n = 2]
    /\ UNCHANGED <<origin, dirty, it>>

\* record.encode()
DoEncode == EncodeReturns(encode(obj))

\* A new record of the same class over the octets encode returned; origin
\* keeps what the encoded record's members read, and whether that record
\* was built empty.
DoDecode ==
    /\ last.op = "encode"
    /\ last.err = OK
    /\ origin = NoOrigin
    /\ obj' = TLVStructure(obj.class, last.out)
    /\ origin' = [built |-> obj.buffer = NoBuffer, values |-> ReadAll(obj)]
    /\ last' = Call("decode", 0, None, OK, None, last.out)
    /\ dirty' = FALSE
    /\ image' = NoImage
    /\ UNCHANGED it

Next ==
    \/ \E i \in 1..Len(Members(obj.class)) :
          \E value \in Inputs(Members(obj.class)[i]) : DoSet(i, value)
    \/ \E i \in 1..Len(Members(obj.class)) : DoGet(i)
    \/ DoEncode
    \/ DoDecode

Spec == Init /\ [][Next]_vars

---------------------------------------------------------------------------
(* The iteration of a List: a List of a class, bound to a payload by a     *)
(* call, iterated by a for loop until the iterator stops or fails.         *)

MaxListLen == 3

\* The elements the payloads are made of: three elements of an Inner, the
\* last with the value 0x18, and a boolean.
ListElements == {<<36, 0, 1>>, <<36, 0, 2>>, <<36, 0, 24>>, <<41, 3>>}

RECURSIVE Concat(_)
Concat(seqs) == IF seqs = <<>> THEN <<>> ELSE Head(seqs) \o Concat(Tail(seqs))

\* The payloads Lists are bound to: up to MaxListLen elements.
ListPayloads == {Concat(elements) : elements \in SeqsUpTo(ListElements, MaxListLen)}

InitList ==
    /\ obj = TLVStructure("Inner", NoBuffer)
    /\ last = Call("new", 0, None, OK, None, <<>>)
    /\ origin = NoOrigin
    /\ dirty = FALSE
    /\ image = NoImage
    /\ it = [NoList EXCEPT !.list = List("Inner", NoBuffer)]

\* tlv_list(buffer)
DoListCall(buffer) ==
    /\ it.iterator = NoIterator
    /\ it.list.buffer = NoBuffer
    /\ it' = [it EXCEPT !.list = ListCall(it.list, buffer)]
    /\ UNCHANGED <<obj, last, origin, dirty, image>>

\* iter(tlv_list)
DoListIter ==
    /\ it.iterator = NoIterator
    /\ it' = [it EXCEPT !.iterator = ListIterator(it.list)]
    /\ UNCHANGED <<obj, last, origin, dirty, image>>

ListNextReturns(r) ==
    /\ it' = [it EXCEPT !.iterator = r.iterator,
                        !.err = r.err,
                        !.yielded = IF r.err = OK THEN Append(@, r.item[2]) ELSE @]
    /\ UNCHANGED <<obj, last, origin, dirty, image>>

\* next(iterator), as the for loop calls it: until it raises.
DoListNext ==
    /\ it.iterator # NoIterator
    /\ it.err = OK
    /\ ListNextReturns(ListIteratorNext(it.iterator))

NextList ==
    \/ \E buffer \in ListPayloads : DoListCall(buffer)
    \/ DoListIter
    \/ DoListNext

ListSpec == InitList /\ [][NextList]_vars

---------------------------------------------------------------------------
(* The TLV grammar, as a reference for the properties: an element is a     *)
(* control octet, a tag header, a length for the strings, and a payload; a *)
(* container's payload is a run of elements closed by end-of-container.    *)

InBuffer(buffer, p) == IF p > Len(buffer) THEN -1 ELSE p

RECURSIVE RefNext(_, _)
RECURSIVE RefBody(_, _)

\* The offset just after the element whose control octet is at pos, or -1
\* when no well-formed element with a supported tag starts there.
RefNext(buffer, pos) ==
    IF pos < 0 \/ pos >= Len(buffer) THEN -1
    ELSE LET tc == At(buffer, pos) \div 32
             et == At(buffer, pos) % 32
             hdr == pos + 1 + TAG_LENGTH[tc + 1]
         IN IF hdr > Len(buffer) \/ tc \in {2, 3, 4, 5} THEN -1
            ELSE IF et <= 7 THEN InBuffer(buffer, hdr + Pow2(et % 4))
            ELSE IF et \in {8, 9, 20} THEN hdr
            ELSE IF et \in {10, 11} THEN InBuffer(buffer, hdr + 4 * Pow2(et % 2))
            ELSE IF et <= 19
            THEN (IF hdr + Pow2(et % 4) > Len(buffer) THEN -1
                  ELSE InBuffer(buffer, hdr + Pow2(et % 4)
                                        + UnpackLE(buffer, hdr, Pow2(et % 4))))
            ELSE IF et \in {21, 22, 23} THEN RefBody(buffer, hdr)
            ELSE -1

\* The offset just after the end-of-container that closes the container one
\* of whose elements (or whose end) is at pos, or -1.
RefBody(buffer, pos) ==
    IF pos < 0 \/ pos >= Len(buffer) THEN -1
    ELSE IF At(buffer, pos) = 24 THEN pos + 1
    ELSE RefBody(buffer, RefNext(buffer, pos))

\* The tag of the element at pos: a context tag is <<n>>, a fully qualified
\* tag is <<vendor, profile, number>>, an anonymous element has <<>>.
RefTag(buffer, pos) ==
    LET tc == At(buffer, pos) \div 32
    IN IF tc = 1 THEN <<At(buffer, pos + 1)>>
       ELSE IF tc \in {6, 7}
       THEN <<UnpackLE(buffer, pos + 1, 2), UnpackLE(buffer, pos + 3, 2),
              UnpackLE(buffer, pos + 5, IF tc = 7 THEN 4 ELSE 2)>>
       ELSE <<>>

\* The top-level elements from pos on, and whether the octets are a run of
\* well-formed elements.
RECURSIVE RefElements(_, _)
RefElements(buffer, pos) ==
    IF pos = Len(buffer) THEN [ok |-> TRUE, elems |-> <<>>]
    ELSE IF RefNext(buffer, pos) < 0 THEN [ok |-> FALSE, elems |-> <<>>]
    ELSE LET rest == RefElements(buffer, RefNext(buffer, pos))
         IN [ok |-> rest.ok,
             elems |-> <<[at |-> pos, tag |-> RefTag(buffer, pos),
                          type |-> At(buffer, pos) % 32,
                          next |-> RefNext(buffer, pos)]>> \o rest.elems]

\* The tag header of the grammar for a tag.
RefTagHeader(tag) ==
    IF tag = <<>> THEN <<>>
    ELSE IF Len(tag) = 1 THEN tag
    ELSE PackLE(tag[1], 2) \o PackLE(tag[2], 2)
         \o PackLE(tag[3], IF tag[3] >= 65536 THEN 4 ELSE 2)

\* The tag-control of the grammar for a tag.
RefTagControl(tag) ==
    IF tag = <<>> THEN 0
    ELSE IF Len(tag) = 1 THEN 1
    ELSE IF tag[3] >= 65536 THEN 7 ELSE 6

Zeros(n) == [i \in 1..n |-> 0]

MemberOf(record, i) == Members(record.class)[i]

MemberIndexes(record) == 1..Len(Members(record.class))

\* What member i of the record reads now.
Reads(record, i) == Get(MemberOf(record, i), record)

\* Member i is one that encode emits: it reads a value, or it reads None
\* and is nullable and not optional.
IsEmitted(record, i) ==
    \/ Reads(record, i).value # None
    \/ MemberOf(record, i).nullable /\ ~MemberOf(record, i).optional

\* The tags of the members encode emits, in declaration order from member i.
RECURSIVE EmittedTags(_, _)
EmittedTags(record, i) ==
    IF i > Len(Members(record.class)) THEN <<>>
    ELSE (IF IsEmitted(record, i) THEN <<MemberOf(record, i).tag>> ELSE <<>>)
         \o EmittedTags(record, i + 1)

RefTags(buffer) ==
    [k \in DOMAIN RefElements(buffer, 0).elems |-> RefElements(buffer, 0).elems[k].tag]

---------------------------------------------------------------------------
(* The properties.                                                         *)

\* C1: round trip.  A record of the same class created over the octets that
\* encode returned for a record built empty and filled through the write
\* path reads, for every member, the value the encoded record held.
C1_RoundTrip ==
    (origin.built /\ last.op = "get") =>
        ReadValue([err |-> last.err, value |-> last.value]) = origin.values[last.member]

\* C2: max-length soundness.  The octets encode returns are at most
\* max_length() of the record's class, the size of the buffer it allocated.
C2_MaxLength ==
    (last.op = "encode" /\ last.err = OK) => Len(last.out) <= max_length(obj.class)

\* The record of scenario S5: an Outer built empty whose s is an Inner built
\* empty with a = 1, flag left unset.
IsS5(record) ==
    /\ record.class = "Outer"
    /\ record.buffer = NoBuffer
    /\ DOMAIN record.cached_values = {<<9>>}
    /\ record.cached_values[<<9>>] = <<"struct", InnerBuilt(<<1>>)>>

\* C3: wire-exact tag header.  The octets encode returns are a run of
\* well-formed elements, one per emitted member and in declaration order,
\* each with the member's tag in its header: tag-control 1 and one tag octet
\* t for a context tag t, 0 included.  Scenario S5 encodes as
\* 35 09 24 00 01 18.
C3_TagHeader ==
    (last.op = "encode" /\ last.err = OK) =>
        /\ RefElements(last.out, 0).ok
        /\ RefTags(last.out) = EmittedTags(obj, 1)
        /\ \A k \in DOMAIN RefElements(last.out, 0).elems :
              LET e == RefElements(last.out, 0).elems[k]
              IN Len(e.tag) = 1 =>
                    /\ At(last.out, e.at) \div 32 = 1
                    /\ At(last.out, e.at + 1) = e.tag[1]
        /\ IsS5(obj) => last.out = <<53, 9, 36, 0, 1, 24>>

\* What Member.encode_into writes for member i alone, into a buffer of the
\* record's max_length() from offset 0.
EmitAlone(record, i) ==
    MemberEncodeInto(MemberOf(record, i), record, Zeros(max_length(record.class)), 0)

RECURSIVE ConcatAlone(_, _)
ConcatAlone(record, i) ==
    IF i > Len(Members(record.class)) THEN <<>>
    ELSE Slice(EmitAlone(record, i).buffer, 0, EmitAlone(record, i).offset)
         \o ConcatAlone(record, i + 1)

\* The rule of C4 for member i of the record as encode left it.
AbsentRule(record, i) ==
    LET m == MemberOf(record, i)
        g == Reads(record, i)
        r == EmitAlone(record, i)
    IN g.err = OK =>
         /\ (g.value = None /\ m.optional) => (r.err = OK /\ r.offset = 0)
         /\ (g.value = None /\ ~m.optional /\ ~m.nullable) =>
               (r.err = "ValueError" /\ last.err # OK)
         /\ (g.value = None /\ ~m.optional /\ m.nullable) =>
               /\ r.err = OK
               /\ Slice(r.buffer, 0, r.offset)
                     = <<RefTagControl(m.tag) * 32 + 20>> \o RefTagHeader(m.tag)
         /\ (g.value # None /\ r.err = OK) =>
               (r.offset > 0 /\ At(r.buffer, 0) % 32 # NULL)

\* C4: encode's treatment of an absent value.  For each member, in
\* declaration order, that reads None: nothing is emitted when it is
\* optional; encode fails when it is neither optional nor nullable; otherwise
\* a NULL element is emitted, made of the control octet with kind NULL and
\* the tag header, without payload.  A member that reads a value is emitted,
\* as an element of another kind than NULL, unless encoding the value fails.
C4_AbsentValue ==
    last.op = "encode" =>
        /\ \A i \in MemberIndexes(obj) : AbsentRule(obj, i)
        /\ last.err = OK => last.out = ConcatAlone(obj, 1)

\* The integers a member declared (signed, octets) with [minimum, maximum]
\* accepts.
IntAccepts(member, n) ==
    /\ IF member.signed
       THEN -Pow2(8 * member.max_value_length - 1) <= n
            /\ n <= Pow2(8 * member.max_value_length - 1) - 1
       ELSE 0 <= n /\ n <= Pow2(8 * member.max_value_length) - 1
    /\ member.minimum # <<>> => member.minimum[1] <= n
    /\ member.maximum # <<>> => n <= member.maximum[1]

IsIntWrite(call) ==
    /\ call.op = "set"
    /\ call.arg # None
    /\ MemberOf(obj, call.member).cls = "IntMember"

\* C5: integer validation.  A write of an integer outside the member's
\* representable range or declared range fails and leaves cached_values as
\* it was; a write of an integer inside them is accepted and stored in
\* cached_values under the member's tag, the other entries unchanged.
C5_IntValidation ==
    [][IsIntWrite(last') =>
          IF IntAccepts(MemberOf(obj, last'.member), last'.arg[2])
          THEN /\ last'.err = OK
               /\ obj' = [obj EXCEPT !.cached_values =
                             Put(@, MemberOf(obj, last'.member).tag, last'.arg)]
          ELSE /\ last'.err # OK
               /\ obj' = obj]_vars

\* A rejected integer write on a record that already holds written values.
C5_Witness ==
    /\ IsIntWrite(last)
    /\ ~IntAccepts(MemberOf(obj, last.member), last.arg[2])
    /\ last.err = "ValueError"
    /\ DOMAIN obj.cached_values # {}


\* Encoding changed the record a into b only as reading its fields does:
\* nothing indexed or cached is dropped, a cached value stays what it was (a
\* cached sub-record being changed in the same way only), the scan cursor
\* does not move back, and a record without a backing buffer keeps its
\* index, its null tags, its cursor and the tags it has cached.
RECURSIVE OnlyRead(_, _)
ValueOnlyRead(v, w) ==
    IF v[1] = "struct" THEN w[1] = "struct" /\ OnlyRead(v[2], w[2])
    ELSE IF v[1] = "array"
    THEN /\ w[1] = "array"
         /\ Len(w[2]) = Len(v[2])
         /\ \A k \in 1..Len(v[2]) : OnlyRead(v[2][k], w[2][k])
    ELSE w = v

OnlyRead(a, b) ==
    /\ b.class = a.class
    /\ b.buffer = a.buffer
    /\ DOMAIN a.cached_values \subseteq DOMAIN b.cached_values
    /\ \A t \in DOMAIN a.cached_values :
          ValueOnlyRead(a.cached_values[t], b.cached_values[t])
    /\ DOMAIN a.tag_value_offset \subseteq DOMAIN b.tag_value_offset
    /\ DOMAIN a.tag_value_length \subseteq DOMAIN b.tag_value_length
    /\ a.null_tags \subseteq b.null_tags
    /\ a.offset <= b.offset
    /\ a.buffer = NoBuffer =>
          /\ b.tag_value_offset = a.tag_value_offset
          /\ b.tag_value_length = a.tag_value_length
          /\ b.null_tags = a.null_tags
          /\ b.offset = a.offset
          /\ DOMAIN b.cached_values = DOMAIN a.cached_values

\* C6, as stated: whether encode returns the octets or fails, the record's
\* cached_values, tag_value_offset, tag_value_length, null_tags and scan
\* cursor after the call are what they were before it.
C6_Unchanged == [][last'.op = "encode" => obj' = obj]_vars

\* C6, amended: whether encode returns the octets or fails, it changes the
\* record only as reading its fields in declaration order does, and a record
\* without a backing buffer keeps its index, null tags, cursor and cached
\* tags as they were.
C6_OnlyRead == [][last'.op = "encode" => OnlyRead(obj, obj')]_vars

\* An encode of a record over a buffer that failed on a missing required
\* field after it had read, and indexed, earlier fields.
C6_Witness ==
    /\ last.op = "encode"
    /\ last.err = "ValueError"
    /\ obj.buffer # NoBuffer
    /\ DOMAIN obj.tag_value_offset # {}
    /\ DOMAIN obj.cached_values # {}

\* C7: idempotence of encode.  Two calls of encode with no write between
\* them return the same octets, and fail alike.
C7_Idempotent ==
    (last.op = "encode" /\ image.n = 2) =>
        (last.out = image.out /\ last.err = image.err)

\* A second encode, which succeeded, of a record over a buffer that was
\* written to.
C7_Witness ==
    /\ last.op = "encode"
    /\ image.n = 2
    /\ last.err = OK
    /\ Len(last.out) > 0
    /\ obj.buffer # NoBuffer
    /\ dirty

\* What the members read when they are read in declaration order from member
\* i on, each read made on the record as the read before left it.
RECURSIVE ReadInOrder(_, _)
ReadInOrder(record, i) ==
    IF i > Len(Members(record.class)) THEN <<>>
    ELSE <<ReadValue(Reads(record, i))>> \o ReadInOrder(Reads(record, i).obj, i + 1)

\* C8: independence of read order.  On a record over a buffer that was not
\* written to, a member read in whatever order the caller reads returns what
\* it returns when a fresh record over the same buffer is read in declaration
\* order.
C8_ReadOrder ==
    (last.op = "get" /\ obj.buffer # NoBuffer /\ ~dirty) =>
        ReadValue([err |-> last.err, value |-> last.value])
            = ReadInOrder(TLVStructure(obj.class, obj.buffer), 1)[last.member]

\* The top-level elements the grammar finds in the record's buffer, up to
\* the first octet that starts no element.
Elements(record) == RefElements(record.buffer, 0).elems

\* The first element of the record's buffer that carries the tag, 0 if none.
FirstWith(record, tag) ==
    IF \E k \in DOMAIN Elements(record) : Elements(record)[k].tag = tag
    THEN CHOOSE k \in DOMAIN Elements(record) :
            /\ Elements(record)[k].tag = tag
            /\ \A j \in 1..(k - 1) : Elements(record)[j].tag # tag
    ELSE 0

Fresh(record) ==
    record.buffer # NoBuffer /\ record = TLVStructure(record.class, record.buffer)

\* C9: lazy indexing.  After the first get on a fresh record over a buffer,
\* of a member whose tag T is carried by a top-level element, tag_value_offset
\* holds the tags of the elements up to the first that carries T and no
\* other, and the scan cursor is at the control octet of the element after it.
C9_LazyIndex ==
    [][(Fresh(obj) /\ last'.op = "get"
        /\ FirstWith(obj, MemberOf(obj, last'.member).tag) > 0) =>
          LET k == FirstWith(obj, MemberOf(obj, last'.member).tag)
          IN /\ DOMAIN obj'.tag_value_offset = {Elements(obj)[j].tag : j \in 1..k}
             /\ obj'.offset = Elements(obj)[k].next]_vars

\* The zero of the member's kind.
ZeroOf(member) ==
    CASE member.cls = "IntMember" -> <<"int", 0>>
      [] member.cls = "BoolMember" -> <<"bool", FALSE>>
      [] member.cls = "OctetStringMember" -> <<"bytes", <<>>>>
      [] member.cls = "UTF8StringMember" -> <<"str", <<>>>>
      [] OTHER -> None

\* No value of the member is to be found in the record: its tag is not in
\* the cache, and the record's buffer is a run of well-formed elements of
\* which none but a NULL carries the tag.
NothingToRead(record, member) ==
    /\ member.tag \notin DOMAIN record.cached_values
    /\ record.buffer # NoBuffer
    /\ RefElements(record.buffer, 0).ok
    /\ \A k \in DOMAIN Elements(record) :
          Elements(record)[k].tag = member.tag => Elements(record)[k].type = NULL

\* C10: read default.  A get of a member of which no value is to be found
\* does not fail; it returns None when the member is nullable or optional,
\* and the zero of its kind (0, false, the empty string) otherwise.
C10_ReadDefault ==
    [][(last'.op = "get" /\ NothingToRead(obj, MemberOf(obj, last'.member))) =>
          /\ last'.err = OK
          /\ last'.value =
                IF MemberOf(obj, last'.member).nullable
                   \/ MemberOf(obj, last'.member).optional
                THEN None
                ELSE ZeroOf(MemberOf(obj, last'.member))]_vars


\* The step is a get, a set or an encode on the record: the record after it
\* is the record before it, not a new one.
SameRecord == last'.op \in {"get", "set", "encode"}

\* C11: stable index.  Once a tag is in tag_value_offset and
\* tag_value_length, every later get, set and encode on the record leaves
\* its offset and its length as they are, and leaves the tag in null_tags or
\* out of it as it was.
C11_StableIndex ==
    [][SameRecord =>
          \A t \in DOMAIN obj.tag_value_offset :
             /\ t \in DOMAIN obj'.tag_value_offset
             /\ obj'.tag_value_offset[t] = obj.tag_value_offset[t]
             /\ t \in DOMAIN obj'.tag_value_length
             /\ obj'.tag_value_length[t] = obj.tag_value_length[t]
             /\ (t \in obj'.null_tags) = (t \in obj.null_tags)]_vars


\* The offset just after the tag header of the element whose control octet
\* is at pos.
AfterHeader(buffer, pos) == pos + 1 + TAG_LENGTH[(At(buffer, pos) \div 32) + 1]

\* The element is a structure, an array or a list.
IsContainer(element) == element.type \in {STRUCTURE, ARRAY, LIST}

\* The record's buffer is a run of well-formed elements and the scan has
\* passed the end of element k, a container.
ScannedContainer(record, k) ==
    /\ record.buffer # NoBuffer
    /\ RefElements(record.buffer, 0).ok
    /\ k \in DOMAIN Elements(record)
    /\ IsContainer(Elements(record)[k])
    /\ Elements(record)[k].tag \in DOMAIN record.tag_value_offset
    /\ \A j \in DOMAIN Elements(record) :
          Elements(record)[j].tag = Elements(record)[k].tag => j = k

\* C12: matching end-of-container.  For a container element of a
\* well-formed buffer that the scan has indexed, the payload indexed starts
\* just after the element's tag header and ends just before the
\* end-of-container that closes this container by the grammar, whatever the
\* tag, length and value octets inside the payload are; the scan that
\* indexes it leaves the cursor just after that end-of-container; and a get
\* of the member that the container carries does index it.
C12_ContainerEnd ==
    [][obj'.buffer # NoBuffer =>
          \A k \in DOMAIN Elements(obj') :
             LET e == Elements(obj')[k]
                 asked == /\ SameRecord
                          /\ last'.op = "get"
                          /\ MemberOf(obj, last'.member).tag = e.tag
                          /\ e.tag \notin DOMAIN obj.tag_value_offset
                          /\ e.tag \notin DOMAIN obj.cached_values
             IN /\ ScannedContainer(obj', k) =>
                      /\ obj'.tag_value_offset[e.tag] = AfterHeader(obj'.buffer, e.at)
                      /\ obj'.tag_value_length[e.tag]
                            = e.next - 1 - AfterHeader(obj'.buffer, e.at)
                      /\ asked => obj'.offset = e.next
                /\ (asked /\ ScannedContainer(
                                [obj' EXCEPT !.tag_value_offset = Put(@, e.tag, 0)], k))
                      => e.tag \in DOMAIN obj'.tag_value_offset]_vars


\* The elements of the payload the List is bound to.
ListItems == RefElements(it.list.buffer, 0).elems

\* C13: list iteration.  Iterating a List over a payload of n elements
\* yields one sub-record per element, the cursor being just after the k-th
\* element once the k-th item is yielded, and stops after the n-th: n items
\* are yielded when the iterator stops.
C13_ListIteration ==
    (it.iterator # NoIterator /\ it.list.buffer # NoBuffer) =>
        /\ Len(it.yielded) <= Len(ListItems)
        /\ it.err = OK =>
              it.iterator.offset
                 = IF it.yielded = <<>> THEN 0 ELSE ListItems[Len(it.yielded)].next
        /\ it.err = "StopIteration" => Len(it.yielded) = Len(ListItems)
        /\ it.err \in {OK, "StopIteration"}


\* The tag of the element at the record's cursor, NoTag when reading it
\* fails.
TagAtCursor(record) ==
    ThisTag(record.buffer, record.offset, At(record.buffer, record.offset) \div 32).tag

\* One iteration of the loop of scan_until from the record's cursor: the
\* scan for the tag of the element that is there.
Iteration(record) == ScanLoop(record, TagAtCursor(record))

\* An iteration from offset p that completes leaves the cursor after p; one
\* that raises leaves it at p.
Progress(record, p) ==
    LET r == Iteration([record EXCEPT !.offset = p])
    IN IF r.err = OK THEN r.obj.offset > p ELSE r.obj.offset = p

\* The scan for the tag, made of at most fuel iterations.
RECURSIVE ScanWithin(_, _, _)
ScanWithin(record, tag, fuel) ==
    IF record.offset >= Len(record.buffer)
    THEN [done |-> TRUE, err |-> OK, obj |-> record]
    ELSE IF fuel = 0 THEN [done |-> FALSE, err |-> OK, obj |-> record]
    ELSE LET r == Iteration(record)
         IN IF r.err # OK \/ TagAtCursor(record) = tag
            THEN [done |-> TRUE, err |-> r.err, obj |-> r.obj]
            ELSE ScanWithin(r.obj, tag, fuel - 1)

\* The scan for the tag ends within as many iterations as octets are left
\* after the cursor, as scan_until leaves the record.
EndsWithin(record, tag) ==
    ScanWithin(record, tag, Len(record.buffer) - record.offset)
        = [done |-> TRUE, err |-> scan_until(record, tag).err,
           obj |-> scan_until(record, tag).obj]

\* C14: scan progress and termination.  From every offset of a record's
\* buffer an iteration of the scan that completes moves the cursor forward,
\* whatever the kind of the element there; the scan for any member's tag ends
\* within as many iterations as octets are left; and no get, set or encode
\* moves the cursor of the record back.
C14_ScanProgress ==
    /\ [](obj.buffer # NoBuffer =>
            /\ \A p \in 0..(Len(obj.buffer) - 1) : Progress(obj, p)
            /\ \A i \in MemberIndexes(obj) : EndsWithin(obj, MemberOf(obj, i).tag))
    /\ [][SameRecord => obj'.offset >= obj.offset]_vars

\* A get whose scan went to the end of the buffer, over a container with an
\* empty payload and over an element whose value is in its control octet.
C14_Witness ==
    /\ last.op = "get"
    /\ obj.buffer # NoBuffer
    /\ obj.offset = Len(obj.buffer)
    /\ \E t \in DOMAIN obj.tag_value_length :
          /\ obj.tag_value_length[t] = 0
          /\ At(obj.buffer, obj.tag_value_offset[t]) = END_OF_CONTAINER
    /\ \E t \in DOMAIN obj.tag_value_offset :
          At(obj.buffer, obj.tag_value_offset[t]) % 32 \in {BOOL, BOOL + 1, NULL}

===========================================================================
